---- MODULE Spec2Model ----
(***************************************************************************)
(* A model of mule, a terminal inspector for binaries.                     *)
(*                                                                         *)
(*   - the shell (src/main.rs): the command buffer, its character cursor,  *)
(*     the two input modes and the run loop;                               *)
(*   - the format viewers (src/view_gb.rs, src/view_macho.rs): the focus   *)
(*     cycle, previous focus and the list selection.                       *)
(*                                                                         *)
(* Spec is the shell driven by terminal events; SpecView is a viewer state *)
(* driven by InteractiveCommands.                                          *)
(***************************************************************************)
EXTENDS Integers, Sequences, FiniteSets, TLC

VARIABLES
    input,            \* Mule.input, as the sequence of its chars
    input_mode,       \* Mule.input_mode
    character_index,  \* Mule.character_index
    exit,             \* Mule.exit
    run_state,        \* where Mule::run is: "running", "quit", "io_error", "panic"
    last,             \* history: the last event and the state it found
    qseq,             \* history: progress through the key presses ':', 'q', Enter
    binary_path,      \* Mule.project_state.binary_path: <<>> for None, <<p>> for Some(p)
    fmt,              \* which viewer state this is: "GB" or "Macho"
    focus_on,         \* *InteractiveState.focus_on
    previous_focus,   \* *InteractiveState.previous_focus
    selected,         \* ListState.selected of bank_list_state / command_list_state
    view_state,       \* "ok", or "panic" after an out-of-bounds index
    dis_results,      \* what gb::disassemble returns for each range of the GB binary
    disassembles,     \* GBInteractiveState.disassembles: the lines kept for each range
    open_call,        \* open_binary_file: the file at the path it is called with
    open_ret,         \* open_binary_file: what it returned, <<>> while it has not
    vlast,            \* history: the last two commands and the states they found
    streak,           \* history: directions of the latest consecutive move_focus calls
    streak_start,     \* history: focus_on before the first call of streak
    nitems,           \* length of the list the selection is over (banks, load commands)
    hex_data,         \* hex_data_string: data
    hex_width,        \* hex_data_string: width (u16)
    hex_blocks,       \* hex_data_string: byte_blocks_per_line
    hex_lines,        \* hex_data_string: lines
    hex_offset,       \* hex_data_string: offset
    hex_string,       \* hex_data_string: hex_string, as its lines
    hex_pc            \* hex_data_string: "start", "loop", "done" (returned) or "panic"

shell_vars == <<input, input_mode, character_index, exit, run_state, last, qseq,
                binary_path>>
view_vars == <<fmt, nitems, focus_on, previous_focus, selected, view_state, vlast,
               streak, streak_start, dis_results, disassembles>>
hex_vars == <<hex_data, hex_width, hex_blocks, hex_lines, hex_offset, hex_string, hex_pc>>
file_vars == <<open_call, open_ret>>
vars == <<shell_vars, view_vars, hex_vars, file_vars>>

\* Longest command buffer explored, in chars.
MaxLen == 3

(***************************************************************************)
(* Strings.  A Rust String is UTF-8: a char is one or more bytes, and      *)
(* String::insert takes a byte index.  A byte is modelled as <<c, k>>, the *)
(* k-th byte of char c.                                                    *)
(***************************************************************************)
Chars == {":", "q", "o", "e'"}

\* The chars typed, and the longest buffer explored, where a command with an argument
\* is typed: ':', 'o', a blank and a path (the file named "o").
OpenChars == {":", "o", " "}
MaxOpenLen == 4

\* UTF-8 length of a char: "e'" stands for a two-byte char such as U+00E9.
len_utf8(c) == IF c = "e'" THEN 2 ELSE 1

char_bytes(c) == [k \in 1..len_utf8(c) |-> <<c, k>>]

RECURSIVE as_bytes(_)
as_bytes(s) == IF s = <<>> THEN <<>> ELSE char_bytes(Head(s)) \o as_bytes(Tail(s))

\* The chars of a well-formed byte string: each lead byte <<c, 1>> is one char.
RECURSIVE chars(_)
chars(b) ==
    IF b = <<>> THEN <<>>
    ELSE IF Head(b)[2] = 1 THEN <<Head(b)[1]>> \o chars(Tail(b))
    ELSE chars(Tail(b))

is_char_boundary(b, ix) ==
    \/ ix = 0
    \/ ix = Len(b)
    \/ ix < Len(b) /\ b[ix + 1][2] = 1

\* String::insert(idx, ch) on bytes; the caller checks is_char_boundary.
string_insert(b, ix, c) ==
    SubSeq(b, 1, ix) \o char_bytes(c) \o SubSeq(b, ix + 1, Len(b))

\* The byte offset at which each char starts (char_indices().map(|(i, _)| i)).
RECURSIVE char_offsets(_, _)
char_offsets(s, at) ==
    IF s = <<>> THEN <<>>
    ELSE <<at>> \o char_offsets(Tail(s), at + len_utf8(Head(s)))

(***************************************************************************)
(* The shell: Mule.  m is a record of the fields the handlers touch.       *)
(***************************************************************************)
Modes == {"Normal", "Editing"}

saturating_sub(a, b) == IF a < b THEN 0 ELSE a - b

clamp_cursor_unclamped(m, new_cursor_pos) == new_cursor_pos

clamp_cursor(m, new_cursor_pos) ==
    LET hi == Len(m.input)
    IN  IF new_cursor_pos < 0 THEN 0
        ELSE IF new_cursor_pos > hi THEN hi
        ELSE new_cursor_pos

move_cursor_left(m) ==
    LET cursor_moved_left == saturating_sub(m.character_index, 1)
    IN  [m EXCEPT !.character_index = clamp_cursor(m, cursor_moved_left)]

move_cursor_right(m) ==
    LET cursor_moved_right == m.character_index + 1
    IN  [m EXCEPT !.character_index = clamp_cursor(m, cursor_moved_right)]

delete_char_at_cursor(m) ==
    IF m.character_index # 0
    THEN move_cursor_left(
             [m EXCEPT !.input = SubSeq(m.input, 1, m.character_index)
                                 \o SubSeq(m.input, m.character_index + 2, Len(m.input))])
    ELSE m

delete_char(m) ==
    IF m.character_index # 0
    THEN LET current_index == m.character_index
             from_left_to_current_index == current_index - 1
             before_char_to_delete ==
                 SubSeq(m.input, 1,
                        IF from_left_to_current_index < Len(m.input)
                        THEN from_left_to_current_index ELSE Len(m.input))
             after_char_to_delete == SubSeq(m.input, current_index + 1, Len(m.input))
         IN  move_cursor_left(
                 [m EXCEPT !.input = before_char_to_delete \o after_char_to_delete])
    ELSE m

byte_index_is_char_index(m) == m.character_index

byte_index(m) ==
    LET offs == char_offsets(m.input, 0)
    IN  IF m.character_index < Len(offs)
        THEN offs[m.character_index + 1]
        ELSE Len(as_bytes(m.input))

enter_char(m, new_char) ==
    LET index == byte_index(m)
        b == as_bytes(m.input)
    IN  IF is_char_boundary(b, index)
        THEN move_cursor_right([m EXCEPT !.input = chars(string_insert(b, index, new_char))])
        ELSE [m EXCEPT !.panicked = TRUE]

is_quit_prefix(text) == IF Len(text) < 2 THEN FALSE ELSE SubSeq(text, 1, 2) = <<":", "q">>

is_quit_swapped(text) == text = <<"q", ":">>

\* self.input == ":q"
is_quit(text) == text = <<":", "q">>

exec_command_result_keeps(m) == m

exec_command_result_to_normal(m) ==
    [m EXCEPT !.input = <<>>, !.character_index = 0, !.input_mode = "Normal"]

\* What exec_command leaves behind when it does not return early.
exec_command_result(m) == [m EXCEPT !.input = <<>>, !.character_index = 0]

\* exec_command: the returned bool and the state left behind.
exec_command(m) ==
    IF is_quit(m.input)
    THEN [ret |-> TRUE, m |-> m]
    ELSE [ret |-> FALSE, m |-> exec_command_result(m)]

KeyCodesOver(cs) ==
    [type : {"Char"}, c : cs]
    \cup [type : {"Enter", "Backspace", "Left", "Right", "Esc", "Tab"}, c : {"-"}]

KeyCodes == KeyCodesOver(Chars)
KeyKinds == {"Press", "Release"}

normal_mode_key_inserts_all(code) == code.type = "Char"

\* The one key Normal mode reacts to: KeyCode::Char(':').
normal_mode_key(code) == code.type = "Char" /\ code.c = ":"

\* handle_events for Event::Key(key): the returned bool and the state left behind.
handle_key(m, code, kind) ==
    IF m.input_mode = "Normal"
    THEN IF normal_mode_key(code)
         THEN [ret |-> FALSE, m |-> [enter_char(m, code.c) EXCEPT !.input_mode = "Editing"]]
         ELSE [ret |-> FALSE, m |-> m]
    ELSE IF kind = "Press"
    THEN CASE code.type = "Enter" ->
                  exec_command(m)
           [] code.type = "Char" -> [ret |-> FALSE, m |-> enter_char(m, code.c)]
           [] code.type = "Backspace" -> [ret |-> FALSE, m |-> delete_char(m)]
           [] code.type = "Left" -> [ret |-> FALSE, m |-> move_cursor_left(m)]
           [] code.type = "Right" -> [ret |-> FALSE, m |-> move_cursor_right(m)]
           [] code.type = "Esc" -> [ret |-> FALSE, m |-> [m EXCEPT !.input_mode = "Normal"]]
           [] OTHER -> [ret |-> FALSE, m |-> m]
    ELSE [ret |-> FALSE, m |-> m]

Mule == [input |-> input, input_mode |-> input_mode,
         character_index |-> character_index, binary_path |-> binary_path,
         panicked |-> FALSE]

\* What open_binary_file returns for the path typed, were it called on it: one of the
\* two variants of BinaryFile, or an error.
OpenResults == {"Macho", "GB", "Err"}

NoEvent == [event |-> "none", code |-> [type |-> "Tab", c |-> "-"], kind |-> "Press",
            input |-> <<>>, input_mode |-> "Normal", character_index |-> 0,
            binary_path |-> <<>>, opens |-> "Err", ret |-> FALSE]

NoSeq == [n |-> 0, input |-> <<>>, input_mode |-> "Normal"]

\* The key presses ':', 'q', Enter in a row: how many of them have just been read,
\* and the buffer and mode the first of them found.
qseq_next(code, kind) ==
    IF kind = "Press" /\ code.type = "Char" /\ code.c = ":"
    THEN [n |-> 1, input |-> input, input_mode |-> input_mode]
    ELSE IF kind = "Press" /\ code.type = "Char" /\ code.c = "q" /\ qseq.n = 1
    THEN [qseq EXCEPT !.n = 2]
    ELSE IF kind = "Press" /\ code.type = "Enter" /\ qseq.n = 2
    THEN [qseq EXCEPT !.n = 3]
    ELSE NoSeq

\* Whether render draws the "No binary loaded ..." panel in place of a format's panels.
placeholder_shown == binary_path = <<>>

content_panel_frames_always(bp) == "Macho"

\* What render draws into the content area: the placeholder, or the Header, Load
\* Commands, Segments and Details frames of a Mach-O file.
content_panel(bp) == IF bp = <<>> THEN "Placeholder" ELSE "Macho"

\* Mule::new(), and run about to enter its loop.
ShellInit ==
    /\ input = <<>>
    /\ input_mode = "Normal"
    /\ character_index = 0
    /\ exit = FALSE
    /\ run_state = "running"
    /\ last = NoEvent
    /\ qseq = NoSeq
    /\ binary_path = <<>>

\* One turn of run's loop in which event::read() yields a key event, the chars typed
\* being those of cs and the buffer at most cap chars long.
KeyEventOn(cs, cap) ==
    /\ run_state = "running" /\ ~exit
    /\ \E code \in KeyCodesOver(cs), kind \in KeyKinds :
       \E opens \in IF code.type = "Enter" THEN OpenResults ELSE {"Err"} :
         LET r == handle_key(Mule, code, kind)
         IN  /\ Len(r.m.input) <= cap
             /\ input' = r.m.input
             /\ input_mode' = r.m.input_mode
             /\ character_index' = r.m.character_index
             /\ run_state' = IF r.m.panicked THEN "panic"
                             ELSE IF r.ret THEN "quit" ELSE "running"
             /\ binary_path' = r.m.binary_path
             /\ last' = [event |-> "key", code |-> code, kind |-> kind,
                         input |-> input, input_mode |-> input_mode,
                         character_index |-> character_index,
                         binary_path |-> binary_path, opens |-> opens, ret |-> r.ret]
             /\ qseq' = qseq_next(code, kind)
    /\ UNCHANGED <<exit, view_vars, hex_vars, file_vars>>

KeyEvent == KeyEventOn(Chars, MaxLen)

KeyEventOpen == KeyEventOn(OpenChars, MaxOpenLen)

\* One turn in which event::read() yields an event that is no key (resize, mouse...).
OtherEvent ==
    /\ run_state = "running" /\ ~exit
    /\ last' = [NoEvent EXCEPT !.event = "other", !.input = input,
                               !.input_mode = input_mode,
                               !.character_index = character_index,
                               !.binary_path = binary_path]
    /\ UNCHANGED <<input, input_mode, character_index, exit, run_state, qseq,
                   binary_path, view_vars, hex_vars, file_vars>>

\* terminal.draw or event::read fails: `?` makes run return the error.
IoError ==
    /\ run_state = "running" /\ ~exit
    /\ run_state' = "io_error"
    /\ last' = [NoEvent EXCEPT !.event = "error", !.input = input,
                               !.input_mode = input_mode,
                               !.character_index = character_index,
                               !.binary_path = binary_path]
    /\ UNCHANGED <<input, input_mode, character_index, exit, qseq, binary_path,
                   view_vars, hex_vars, file_vars>>

(***************************************************************************)
(* The format viewers: GBInteractiveState and MachoInteractiveState.       *)
(* v is a record of the fields handle_command touches.  An Option<usize>   *)
(* is <<>> for None and <<i>> for Some(i).                                 *)
(***************************************************************************)
Formats == {"GB", "Macho"}

\* Most list items explored, and the largest raw selection index explored.
MaxItems == 2
MaxSel == 3

\* enum Focus of each viewer.
Focus(f) ==
    IF f = "GB" THEN {"None", "Restarts", "Interrupts", "Header", "Banks"}
    ELSE {"None", "Header", "LoadCommands"}

FOCUS_CYCLE_ORDER(f) ==
    IF f = "GB" THEN <<"Restarts", "Interrupts", "Header", "Banks">>
    ELSE <<"Header", "LoadCommands">>

\* The panel whose list Up and Down drive.
list_focus_header(f) == "Header"

list_focus(f) == IF f = "GB" THEN "Banks" ELSE "LoadCommands"

\* focus_on as *InteractiveState::new sets it.
initial_focus(f) == IF f = "GB" THEN "Header" ELSE "LoadCommands"

\* The scan of move_focus: the last i with FOCUS_CYCLE_ORDER[i] == focus_on, else 0.
RECURSIVE scan_focus(_, _, _, _)
scan_focus(order, focus, i, ix_focus) ==
    IF i >= Len(order) THEN ix_focus
    ELSE scan_focus(order, focus, i + 1, IF order[i + 1] = focus THEN i ELSE ix_focus)

move_focus_ix_clamped(order, focus, dir) ==
    LET ix_focus == scan_focus(order, focus, 0, 0) + dir
    IN  IF ix_focus < 0 THEN 0
        ELSE IF ix_focus >= Len(order) THEN Len(order) - 1
        ELSE ix_focus

move_focus_ix_from_end(order, focus, dir) ==
    LET ix_focus == scan_focus(order, focus, 0, Len(order) - 1) + dir
    IN  IF ix_focus < 0 THEN Len(order) + ix_focus ELSE ix_focus % Len(order)

\* The index move_focus reads FOCUS_CYCLE_ORDER at (0-based).
move_focus_ix(order, focus, dir) ==
    LET ix_focus == scan_focus(order, focus, 0, 0) + dir
    IN  IF ix_focus < 0 THEN Len(order) + ix_focus ELSE ix_focus % Len(order)

move_focus(f, v, dir) ==
    LET order == FOCUS_CYCLE_ORDER(f)
        ix == move_focus_ix(order, v.focus_on, dir)
    IN  IF ix >= 0 /\ ix < Len(order)
        THEN [v EXCEPT !.focus_on = order[ix + 1], !.ix = ix]
        ELSE [v EXCEPT !.panicked = TRUE, !.ix = ix]

select_next_no_advance(sel) == IF sel = <<>> THEN <<0>> ELSE sel

\* ListState::select_next / select_previous: the raw index, clamped when rendered.
\* MaxSel, which no list length reaches, stands for usize::MAX.
select_next(sel) == IF sel = <<>> THEN <<0>> ELSE <<sel[1] + 1>>

select_previous(sel) == IF sel = <<>> THEN <<MaxSel>> ELSE <<saturating_sub(sel[1], 1)>>

unfocus_forgets(f, v) == [v EXCEPT !.focus_on = "None"]

\* InteractiveCommand::Unfocus
unfocus(f, v) == [v EXCEPT !.previous_focus = v.focus_on, !.focus_on = "None"]

refocus_initial(f, v) == [v EXCEPT !.focus_on = initial_focus(f)]

\* InteractiveCommand::Focus
refocus(f, v) == [v EXCEPT !.focus_on = v.previous_focus]

Commands == [type : {"Key"}, key : {"Tab", "BackTab", "Down", "Up", "Esc"}]
            \cup [type : {"Focus", "Unfocus"}, key : {"-"}]

handle_command(f, v, command) ==
    CASE command.type = "Key" ->
            (CASE command.key = "Tab" -> move_focus(f, v, 1)
               [] command.key = "BackTab" -> move_focus(f, v, -1)
               [] command.key = "Down" ->
                    IF v.focus_on = list_focus(f)
                    THEN [v EXCEPT !.selected = select_next(v.selected)] ELSE v
               [] command.key = "Up" ->
                    IF v.focus_on = list_focus(f)
                    THEN [v EXCEPT !.selected = select_previous(v.selected)] ELSE v
               [] OTHER -> v)
      [] command.type = "Focus" -> refocus(f, v)
      [] command.type = "Unfocus" -> unfocus(f, v)

View == [focus_on |-> focus_on, previous_focus |-> previous_focus,
         selected |-> selected, panicked |-> FALSE, ix |-> 0]

\* The direction of a command that calls move_focus, 0 for the others.
dir_of(command) ==
    IF command.type = "Key" /\ command.key = "Tab" THEN 1
    ELSE IF command.type = "Key" /\ command.key = "BackTab" THEN -1
    ELSE 0

MaxStreak == Len(FOCUS_CYCLE_ORDER("GB"))

\* vlast once `command` has run: the command before it, then it, each with the
\* state it found.
remember(command, ix) ==
    (IF vlast = <<>> THEN <<>> ELSE <<vlast[Len(vlast)]>>)
    \o <<[command |-> command, focus_on |-> focus_on, previous_focus |-> previous_focus,
          selected |-> selected, ix |-> ix]>>

\* The ranges of a GB binary that GBInteractiveState::new disassembles: the fields
\* of GBDisassembles.
DisRanges == {"entry_point", "interrupt_v_blank", "interrupt_lcd_stat", "interrupt_timer",
              "interrupt_serial", "interrupt_joypad", "rst_0", "rst_1", "rst_2", "rst_3",
              "rst_4", "rst_5", "rst_6", "rst_7"}

\* A Result<Vec<String>, _> of gb::disassemble: Ok(lines) or Err(err).
DisOk(lines) == [ok |-> TRUE, lines |-> lines, err |-> "-"]

DisErr(err) == [ok |-> FALSE, lines |-> <<>>, err |-> err]

disassemble_keeps_nothing(result) == IF result.ok THEN result.lines ELSE <<>>

\* disassemble(data), on what gb::disassemble(data) returns. A line made by format!
\* is the sequence of its pieces.
disassemble(result) ==
    IF result.ok THEN result.lines ELSE << <<"Err disassemble: ", result.err>> >>

\* The disassembles field that GBInteractiveState::new builds.
DisNew(results) ==
    /\ dis_results = results
    /\ disassembles = [r \in DisRanges |-> disassemble(results[r])]

\* Most ranges that fail to disassemble in the binaries explored.
MaxFailing == 1

\* The error descriptions and the lines that gb::disassemble yields here.
DisErrors == {"unknown opcode", "unexpected end"}

DisLines == << <<"nop">>, <<"jp ", "$0150">> >>

\* A binary whose ranges all disassemble.
NoFailure == [r \in DisRanges |-> DisOk(DisLines)]

\* GBInteractiveState::new / MachoInteractiveState::new for a list of n items, over
\* a binary for which gb::disassemble returns `results`.
ViewNewOn(f, n, results) ==
    /\ fmt = f
    /\ nitems = n
    /\ focus_on = initial_focus(f)
    /\ previous_focus = "None"
    /\ selected = <<0>>
    /\ view_state = "ok"
    /\ vlast = <<>>
    /\ streak = <<>>
    /\ streak_start = "None"
    /\ DisNew(results)

ViewNew(f, n) == ViewNewOn(f, n, NoFailure)

\* handle_command(command); history tells whether vlast and streak are kept.
CommandOn(history) ==
    /\ view_state = "ok"
    /\ \E command \in Commands :
         LET v == handle_command(fmt, View, command)
             d == dir_of(command)
         IN  /\ IF v.selected = <<>> THEN TRUE ELSE v.selected[1] <= MaxSel
             /\ focus_on' = v.focus_on
             /\ previous_focus' = v.previous_focus
             /\ selected' = v.selected
             /\ view_state' = IF v.panicked THEN "panic" ELSE "ok"
             /\ IF ~history THEN UNCHANGED <<vlast, streak, streak_start>>
                ELSE /\ vlast' = remember(command, v.ix)
                     /\ IF d = 0
                        THEN streak' = <<>> /\ streak_start' = "None"
                        ELSE IF streak = <<>> \/ Len(streak) = MaxStreak
                        THEN streak' = <<d>> /\ streak_start' = focus_on
                        ELSE streak' = Append(streak, d) /\ UNCHANGED streak_start
    /\ UNCHANGED <<fmt, nitems, dis_results, disassembles, shell_vars, hex_vars,
                   file_vars>>

Command == CommandOn(TRUE)

\* The viewer's render: the List widget brings the selection into the list (unless
\* its area is empty), then the detail panel indexes the list with it.
RenderOn(history) ==
    /\ view_state = "ok"
    /\ \E area_empty \in BOOLEAN :
         LET sel == IF area_empty THEN selected
                    ELSE IF nitems = 0 THEN <<>>
                    ELSE IF selected # <<>> /\ selected[1] >= nitems
                    THEN <<saturating_sub(nitems, 1)>>
                    ELSE selected
             reads == IF fmt = "GB" THEN focus_on = "Banks" /\ sel # <<>>
                      ELSE sel # <<>>
         IN  /\ selected' = sel
             /\ view_state' = IF reads /\ sel[1] >= nitems THEN "panic" ELSE "ok"
             /\ vlast' = IF ~history THEN vlast
                         ELSE remember([type |-> "Render",
                                        key |-> IF area_empty THEN "empty" ELSE "drawn"], 0)
    /\ UNCHANGED <<fmt, nitems, focus_on, previous_focus, streak, streak_start,
                   dis_results, disassembles, shell_vars, hex_vars, file_vars>>

Render == RenderOn(TRUE)

(***************************************************************************)
(* The hex view: hex_data_string and format_block of src/hex.rs.           *)
(* hex_string is kept as the sequence of its lines, a line as its label    *)
(* (the chars of "{:03X}") and its blocks (the chars of each block); the   *)
(* three blanks behind the label, the blank behind each block and the      *)
(* newline behind each line are not stored.                                *)
(***************************************************************************)
\* Longest buffer, widest area and most lines explored.
MaxDataLen == 40
MaxWidth == 80
MaxLines == 10

\* u16
U16 == 65536

HexDigits == <<"0", "1", "2", "3", "4", "5", "6", "7", "8", "9",
               "A", "B", "C", "D", "E", "F">>

\* format!("{:X}", n)
RECURSIVE upper_hex(_)
upper_hex(n) ==
    IF n < 16 THEN <<HexDigits[n + 1]>>
    ELSE Append(upper_hex(n \div 16), HexDigits[(n % 16) + 1])

\* format!("{:0w$X}", n): zeros in front up to w chars.
upper_hex_padded(n, w) ==
    LET d == upper_hex(n)
    IN  [i \in 1..(IF Len(d) < w THEN w - Len(d) ELSE 0) |-> "0"] \o d

\* let line_info_width = 3 + 3
line_info_width == 3 + 3

byte_blocks_per_line_by_8(width) == (width - line_info_width) \div 8

\* (width - line_info_width) / 9, for a width that does not underflow.
byte_blocks_per_line(width) == (width - line_info_width) \div 9

format_block_of_3(data, offset) ==
    LET n == IF offset >= Len(data) THEN 0
             ELSE IF Len(data) - offset < 3 THEN Len(data) - offset ELSE 3
    IN  [j \in 1..(2 * n) |->
            upper_hex_padded(data[offset + ((j + 1) \div 2)], 2)[2 - (j % 2)]]

\* format_block: the two hex digits of each of the up to 4 bytes from offset on.
format_block(data, offset) ==
    LET n == IF offset >= Len(data) THEN 0
             ELSE IF Len(data) - offset < 4 THEN Len(data) - offset ELSE 4
    IN  [j \in 1..(2 * n) |->
            upper_hex_padded(data[offset + ((j + 1) \div 2)], 2)[2 - (j % 2)]]

\* The byte buffers explored: of every length, with one of two contents.
byte_at(pattern, i) == IF pattern = 1 THEN (37 * i + 11) % 256 ELSE (255 - 3 * i) % 256

\* A call hex_data_string(data, width) about to run.
HexCall(data, width) ==
    /\ hex_data = data
    /\ hex_width = width
    /\ hex_blocks = 0
    /\ hex_lines = 0
    /\ hex_offset = 0
    /\ hex_string = <<>>
    /\ hex_pc = "start"

\* Lines 46-51.  width - line_info_width underflows below 6: a build with overflow
\* checks panics there, a build without them wraps as u16.
HexStart ==
    /\ hex_pc = "start"
    /\ IF hex_width >= line_info_width
       THEN /\ hex_blocks' = byte_blocks_per_line(hex_width)
            /\ hex_pc' = "loop"
       ELSE \/ /\ hex_pc' = "panic"
               /\ UNCHANGED hex_blocks
            \/ /\ hex_blocks' = ((hex_width - line_info_width) % U16) \div 9
               /\ hex_pc' = "loop"
    /\ UNCHANGED <<hex_data, hex_width, hex_lines, hex_offset, hex_string, shell_vars,
                   view_vars, file_vars>>

\* One turn of the while loop: the label, byte_blocks_per_line blocks, the newline.
\* Of an output longer than MaxLines lines the first MaxLines lines are kept, and of
\* the count of the lines behind them whether it is even or odd.
HexLine ==
    /\ hex_pc = "loop"
    /\ hex_offset < Len(hex_data)
    /\ IF hex_lines < MaxLines
       THEN /\ hex_string' = Append(hex_string,
                    [label |-> upper_hex_padded(hex_lines, 3),
                     blocks |-> [k \in 1..hex_blocks |->
                                    format_block(hex_data, hex_offset + 4 * (k - 1))]])
            /\ hex_lines' = hex_lines + 1
       ELSE /\ hex_string' = hex_string
            /\ hex_lines' = IF hex_lines = MaxLines THEN MaxLines + 1 ELSE MaxLines
    /\ hex_offset' = hex_offset + 4 * hex_blocks
    /\ UNCHANGED <<hex_data, hex_width, hex_blocks, hex_pc, shell_vars, view_vars,
                   file_vars>>

\* The while condition fails: hex_string is returned.
HexReturn ==
    /\ hex_pc = "loop"
    /\ hex_offset >= Len(hex_data)
    /\ hex_pc' = "done"
    /\ UNCHANGED <<hex_data, hex_width, hex_blocks, hex_lines, hex_offset, hex_string,
                   shell_vars, view_vars, file_vars>>

(***************************************************************************)
(* The opener: open_binary_file of src/open.rs.  The file at the path is   *)
(* its extension (an Option, <<>> for None), its bytes, the I/O call that  *)
(* fails on it, if any, and whether the parser of its format accepts it.   *)
(***************************************************************************)
\* Longest file explored, in bytes.
MaxFileLen == 4

\* A u32 is the pair of its high and low 16 bits.
\* mule_macho::MAGIC_HEADER, 0xFEEDFACF.
MAGIC_HEADER == <<65261, 64207>>

\* The bytes files are made of: those of the magic number, and 0.
FileBytes == {0, 207, 250, 237, 254}

Extensions == {<<>>, <<"gb">>, <<"gbc">>, <<"GB">>, <<"macho">>}

\* File::open, file.read and fs::read: the one that fails, or "none".
IoFailures == {"none", "open", "read", "read_all"}

from_be_bytes(b) == <<b[1] * 256 + b[2], b[3] * 256 + b[4]>>

\* u32::from_le_bytes
from_le_bytes(b) == <<b[3] + 256 * b[4], b[1] + 256 * b[2]>>

\* file.read(&mut magic) on a buffer of zeros: the bytes the file has, up to four.
read_magic(bytes) == [i \in 1..4 |-> IF i <= Len(bytes) THEN bytes[i] ELSE 0]

OpenOk(kind) == [kind |-> kind, err |-> "-"]

OpenErr(err) == [kind |-> "Err", err |-> err]

\* fs::read(path) and then the parser of the format, each returning early with `?`.
read_and_load(file, kind) ==
    IF file.io = "read_all" THEN OpenErr("io")
    ELSE IF ~file.parses THEN OpenErr("parse")
    ELSE OpenOk(kind)

open_binary_file(file) ==
    IF file.io = "open" THEN OpenErr("io")
    ELSE IF file.io = "read" THEN OpenErr("io")
    ELSE IF from_le_bytes(read_magic(file.bytes)) = MAGIC_HEADER
    THEN read_and_load(file, "Macho")
    ELSE IF file.extension = <<"gb">> \/ file.extension = <<"gbc">>
    THEN read_and_load(file, "GB")
    ELSE OpenErr("file not supported")

\* No call of open_binary_file is under way.
NoOpenCall ==
    /\ open_call = [extension |-> <<>>, bytes |-> <<>>, io |-> "none", parses |-> TRUE]
    /\ open_ret = <<>>

\* open_binary_file(path) runs to its return.
OpenBinaryFile ==
    /\ open_ret = <<>>
    /\ open_ret' = <<open_binary_file(open_call)>>
    /\ UNCHANGED <<open_call, shell_vars, view_vars, hex_vars>>

(***************************************************************************)
(* Specifications.                                                         *)
(***************************************************************************)
Init == ShellInit /\ ViewNew("GB", MaxItems) /\ HexCall(<<>>, MaxWidth) /\ NoOpenCall

Next == KeyEvent \/ OtherEvent \/ IoError

Spec == Init /\ [][Next]_vars

NextOpen == KeyEventOpen \/ OtherEvent \/ IoError

SpecOpen == Init /\ [][NextOpen]_vars

InitView ==
    /\ ShellInit
    /\ \E f \in Formats : \E n \in 0..MaxItems :
         /\ f = "GB" => n >= 2
         /\ ViewNew(f, n)
    /\ HexCall(<<>>, MaxWidth)
    /\ NoOpenCall

NextView == Command \/ Render

SpecView == InitView /\ [][NextView]_vars

\* A GB viewer over a binary of which up to MaxFailing ranges do not disassemble.
InitDis ==
    /\ ShellInit
    /\ \E n \in 2..MaxItems, err \in DisErrors :
       \E failing \in {F \in SUBSET DisRanges : Cardinality(F) <= MaxFailing} :
         ViewNewOn("GB", n, [r \in DisRanges |->
                                IF r \in failing THEN DisErr(err) ELSE DisOk(DisLines)])
    /\ HexCall(<<>>, MaxWidth)
    /\ NoOpenCall

NextDis == CommandOn(FALSE) \/ RenderOn(FALSE)

SpecDis == InitDis /\ [][NextDis]_vars

InitHex ==
    /\ ShellInit
    /\ ViewNew("GB", MaxItems)
    /\ \E n \in 0..MaxDataLen, pattern \in {1, 2}, width \in 0..MaxWidth :
         HexCall([i \in 1..n |-> byte_at(pattern, i)], width)
    /\ NoOpenCall

NextHex == HexStart \/ HexLine \/ HexReturn

SpecHex == InitHex /\ [][NextHex]_vars

\* hex_data_string is straight-line code and one loop: a call that can take a step
\* takes it.
SpecHexFair == SpecHex /\ WF_vars(NextHex)

\* open_binary_file is called with the path of some file.
InitFile ==
    /\ ShellInit
    /\ ViewNew("GB", MaxItems)
    /\ HexCall(<<>>, MaxWidth)
    /\ \E n \in 0..MaxFileLen :
       \E bytes \in [1..n -> FileBytes], ext \in Extensions, io \in IoFailures,
          parses \in BOOLEAN :
         open_call = [extension |-> ext, bytes |-> bytes, io |-> io, parses |-> parses]
    /\ open_ret = <<>>

NextFile == OpenBinaryFile

SpecFile == InitFile /\ [][NextFile]_vars

(***************************************************************************)
(* Properties of the shell, checked under Spec.                            *)
(***************************************************************************)
\* The last event was a key press read in Editing mode with this key code.
EditingPress(type) ==
    /\ last.event = "key"
    /\ last.kind = "Press"
    /\ last.input_mode = "Editing"
    /\ last.code.type = type

\* The last event was a key event that found the state Mule::new() builds.
KeyOnNewState ==
    /\ last.event = "key"
    /\ last.input = <<>>
    /\ last.input_mode = "Normal"
    /\ last.character_index = 0

\* C1: after any sequence of events from Mule::new(), the character cursor is
\* within 0 .. number of chars of the input.
C1_CursorInvariant == 0 <= character_index /\ character_index <= Len(input)

\* C1 witness: Right was pressed with the cursor already behind the last char of a
\* non-empty buffer, and the cursor stayed there.
C1_Witness ==
    /\ EditingPress("Right")
    /\ last.input # <<>>
    /\ last.character_index = Len(last.input)
    /\ character_index = Len(input)

\* C2 as stated: after every command dispatch (Enter pressed in Editing mode), the
\* buffer is empty and the cursor is 0, whatever the text was.
C2_DispatchAlwaysClears ==
    EditingPress("Enter") => input = <<>> /\ character_index = 0

\* C2 amended: after every command dispatch that does not signal termination, the
\* buffer is empty and the cursor is 0; the dispatch of ":q" returns before the
\* buffer is cleared and leaves text and cursor as they were.
C2_DispatchClears ==
    EditingPress("Enter") =>
        IF last.ret
        THEN input = last.input /\ character_index = last.character_index
        ELSE input = <<>> /\ character_index = 0

\* C2 witness: a dispatch of a non-empty text that is not the quit command, with the
\* cursor off 0, left the buffer empty.
C2_Witness ==
    /\ EditingPress("Enter")
    /\ ~last.ret
    /\ last.input # <<>>
    /\ last.character_index > 0
    /\ input = <<>>

\* C3 as stated: from any reachable state, the key presses ':', 'q', Enter in a row
\* terminate the application.
C3_QuitFromAnyState == qseq.n = 3 => run_state = "quit"

\* C3 amended: from any reachable state whose command buffer is empty, in either
\* input mode, the key presses ':', 'q', Enter in a row terminate the application:
\* handle_events returns true and run has left its loop.
C3_QuitFromEmptyBuffer ==
    (qseq.n = 3 /\ qseq.input = <<>>) => (run_state = "quit" /\ last.ret)

\* C3 witness: the three keys were typed in Editing mode on an empty buffer, and the
\* application has quit.
C3_Witness ==
    /\ qseq.n = 3
    /\ qseq.input = <<>>
    /\ qseq.input_mode = "Editing"
    /\ run_state = "quit"

\* C9 as stated: in the state built by Mule::new(), a press of any printable
\* character key inserts that character and advances the cursor.
C9_NewStateInsertsAnyChar ==
    (KeyOnNewState /\ last.kind = "Press" /\ last.code.type = "Char") =>
        (input = <<last.code.c>> /\ character_index = 1)

\* C9 amended: the state built by Mule::new() is in Normal mode, the mode in which
\* keys are not line-edited: there a press of ':' inserts ':', advances the cursor
\* and switches to Editing, and a press of any other printable character key leaves
\* buffer, cursor and mode as they were.
C9_NewStateIsNormal ==
    /\ last.event = "none" =>
          (input_mode = "Normal" /\ input = <<>> /\ character_index = 0)
    /\ (KeyOnNewState /\ last.kind = "Press" /\ last.code.type = "Char") =>
          IF last.code.c = ":"
          THEN input = <<":">> /\ character_index = 1 /\ input_mode = "Editing"
          ELSE input = <<>> /\ character_index = 0 /\ input_mode = "Normal"

\* C9 witness: 'q' was pressed in the state built by Mule::new() and the buffer is
\* still empty.
C9_Witness ==
    /\ KeyOnNewState
    /\ last.kind = "Press"
    /\ last.code = [type |-> "Char", c |-> "q"]
    /\ input = <<>>

\* C10 as stated: after an Enter in Editing mode whose dispatch does not signal
\* termination, the input mode is Normal (the mode in which keys are not
\* line-edited).
C10_EnterLeavesEditing ==
    (EditingPress("Enter") /\ ~last.ret) => input_mode = "Normal"

\* C10 amended: in Editing mode, Enter runs the command dispatch and the input mode
\* is still Editing afterwards, for every buffer text whose dispatch does not signal
\* termination.
C10_EnterStaysEditing ==
    (EditingPress("Enter") /\ ~last.ret) =>
        (input_mode = "Editing" /\ input = <<>> /\ character_index = 0)

\* C10 witness: a non-empty text was dispatched without terminating and the mode is
\* Editing.
C10_Witness ==
    /\ EditingPress("Enter")
    /\ ~last.ret
    /\ last.input # <<>>
    /\ input_mode = "Editing"

\* The last event was a key event read in Normal mode.
NormalKey == last.event = "key" /\ last.input_mode = "Normal"

\* C11 as stated: in Normal mode (the mode where keys are not line-edited), Escape
\* switches the mode to Editing, and every key other than Escape leaves the command
\* buffer and its cursor unchanged.
C11_EscapeEntersEditing ==
    NormalKey =>
        IF last.code.type = "Esc"
        THEN last.kind = "Press" => input_mode = "Editing"
        ELSE input = last.input /\ character_index = last.character_index

\* C11 amended: in Normal mode the key ':' switches the mode to Editing and inserts
\* ':' at the cursor; every other key, Escape included, leaves the mode, the command
\* buffer and its cursor unchanged.
C11_NormalModeKeys ==
    NormalKey =>
        IF last.code = [type |-> "Char", c |-> ":"]
        THEN /\ input_mode = "Editing"
             /\ Len(input) = Len(last.input) + 1
             /\ input[last.character_index + 1] = ":"
             /\ character_index = last.character_index + 1
        ELSE /\ input_mode = "Normal"
             /\ input = last.input
             /\ character_index = last.character_index

\* C11 witness: Escape was pressed in Normal mode over a buffer that still held
\* text; the mode is Normal and the text is the same.
C11_Witness ==
    /\ NormalKey
    /\ last.code.type = "Esc"
    /\ last.kind = "Press"
    /\ last.input # <<>>
    /\ input_mode = "Normal"
    /\ input = last.input

\* C12: Backspace in Editing mode with the cursor at c > 0 removes exactly the char
\* at char position c-1, keeps the others in order and sets the cursor to c-1; with
\* the cursor at 0 it changes neither buffer nor cursor.
C12_Backspace ==
    EditingPress("Backspace") =>
        LET c == last.character_index
        IN  IF c > 0
            THEN /\ Len(input) = Len(last.input) - 1
                 /\ \A i \in 1..Len(input) :
                       input[i] = IF i < c THEN last.input[i] ELSE last.input[i + 1]
                 /\ character_index = c - 1
            ELSE input = last.input /\ character_index = 0

\* C12 witness: Backspace with the cursor between two different chars of a
\* three-char buffer removed the first of them.
C12_Witness ==
    /\ EditingPress("Backspace")
    /\ Len(last.input) = 3
    /\ last.character_index = 2
    /\ last.input[2] # last.input[3]
    /\ input = <<last.input[1], last.input[3]>>
    /\ character_index = 1

\* C13: a printable key pressed in Editing mode with the cursor at char position c
\* gives a buffer with the new char at position c, the earlier chars unchanged and
\* the later ones shifted by one, and the cursor at c+1, multi-byte chars included.
C13_InsertAtCursor ==
    EditingPress("Char") =>
        LET c == last.character_index
        IN  /\ run_state = "running"
            /\ Len(input) = Len(last.input) + 1
            /\ \A i \in 1..Len(input) :
                  input[i] = IF i <= c THEN last.input[i]
                             ELSE IF i = c + 1 THEN last.code.c
                             ELSE last.input[i - 1]
            /\ character_index = c + 1

\* C13 witness: a one-byte char was inserted between a two-byte char and the char
\* after it.
C13_Witness ==
    /\ EditingPress("Char")
    /\ Len(last.input) = 2
    /\ last.input[1] = "e'"
    /\ last.character_index = 1
    /\ last.code.c = "q"
    /\ input = <<"e'", "q", last.input[2]>>

\* The last event was a press of Enter in Editing mode on the buffer `:q`.
ExactQuit == EditingPress("Enter") /\ last.input = <<":", "q">>

\* C25: handle_events returns true, and run leaves its loop as quit, only for a
\* press of Enter in Editing mode on a buffer that is exactly `:q`; after any other
\* key, in any mode and on any other buffer (`:q` with chars before or behind it
\* included), the loop goes on.
C25_QuitOnlyOnExactCommand ==
    /\ (last.ret \/ run_state = "quit") => ExactQuit
    /\ ExactQuit => (last.ret /\ run_state = "quit")
    /\ (last.event \in {"key", "other"} /\ ~ExactQuit) =>
          (run_state = "running" /\ ~last.ret)
    /\ ~exit

\* C25 witness: Enter on `:qq` in Editing mode: the buffer is cleared and the loop
\* goes on.
C25_Witness ==
    /\ EditingPress("Enter")
    /\ last.input = <<":", "q", "q">>
    /\ ~last.ret
    /\ run_state = "running"
    /\ input = <<>>

\* The shell's buffer, cursor, loaded binary and loop are as the last event found
\* them.
BufferKept ==
    /\ input = last.input
    /\ character_index = last.character_index
    /\ binary_path = last.binary_path
    /\ run_state = "running"

\* C28: a press of Esc in Editing mode changes input_mode to Normal and nothing
\* else; in Normal mode a key other than ':' changes nothing; ':' in Normal mode
\* inserts ':' at the cursor into whatever text the buffer still holds, moves the
\* cursor behind it and switches to Editing.
C28_ModeSwitchKeepsBuffer ==
    /\ EditingPress("Esc") => (input_mode = "Normal" /\ BufferKept)
    /\ (NormalKey /\ last.code # [type |-> "Char", c |-> ":"]) =>
          (input_mode = "Normal" /\ BufferKept)
    /\ (NormalKey /\ last.code = [type |-> "Char", c |-> ":"]) =>
          /\ input_mode = "Editing"
          /\ input = SubSeq(last.input, 1, last.character_index) \o <<":">>
                       \o SubSeq(last.input, last.character_index + 1, Len(last.input))
          /\ character_index = last.character_index + 1
          /\ binary_path = last.binary_path
          /\ run_state = "running"

\* C28 witness: Esc left `:q` in the buffer with the cursor behind the first char;
\* ':' in Normal mode made it `::q`.
C28_Witness ==
    /\ NormalKey
    /\ last.code = [type |-> "Char", c |-> ":"]
    /\ last.input = <<":", "q">>
    /\ last.character_index = 1
    /\ input = <<":", ":", "q">>
    /\ character_index = 2
    /\ input_mode = "Editing"

(***************************************************************************)
(* Properties of the open command, checked under SpecOpen.                 *)
(***************************************************************************)
\* str::split_whitespace over the one blank char of the model; cur is the token
\* being read.
RECURSIVE split_whitespace(_, _)
split_whitespace(text, cur) ==
    IF text = <<>> THEN (IF cur = <<>> THEN <<>> ELSE <<cur>>)
    ELSE IF Head(text) = " "
    THEN (IF cur = <<>> THEN <<>> ELSE <<cur>>) \o split_whitespace(Tail(text), <<>>)
    ELSE split_whitespace(Tail(text), Append(cur, Head(text)))

\* The last event was the dispatch of a text that begins with ":o" and has a second
\* whitespace-separated token, the path.
OpenDispatch ==
    /\ EditingPress("Enter")
    /\ Len(last.input) >= 2 /\ last.input[1] = ":" /\ last.input[2] = "o"
    /\ Len(split_whitespace(last.input, <<>>)) >= 2

OpenPath == split_whitespace(last.input, <<>>)[2]

\* C14: the dispatch of `:o <path>` for a path the opener cannot open leaves the
\* loaded binary unchanged, the mode Editing, the buffer empty and the cursor at 0,
\* and the process running.
C14_FailedOpen ==
    (OpenDispatch /\ last.opens = "Err") =>
        /\ binary_path = last.binary_path
        /\ input_mode = "Editing"
        /\ input = <<>>
        /\ character_index = 0
        /\ run_state = "running"
        /\ ~last.ret

\* C14 witness: `:o o` was dispatched with the cursor behind the text, the file "o"
\* being one the opener cannot open, and the buffer is empty.
C14_Witness ==
    /\ OpenDispatch
    /\ last.opens = "Err"
    /\ last.input = <<":", "o", " ", "o">>
    /\ last.character_index = 4
    /\ input = <<>>

\* C15 as stated: the dispatch of `:o <path>` for a path the opener accepts replaces
\* the loaded binary by the one returned, and the no-binary placeholder is shown no
\* more.
C15_SuccessfulOpen ==
    (OpenDispatch /\ last.opens \in {"Macho", "GB"}) =>
        /\ binary_path = <<OpenPath>>
        /\ ~placeholder_shown

\* The kind of the binary that is loaded: the shell keeps its path only.
LoadedKind == IF binary_path = <<>> THEN "None" ELSE "Unknown"

MinHexWidth == line_info_width + 9

\* hex_data_string has returned for a width of at least MinHexWidth.
HexDone == hex_pc = "done" /\ hex_width >= MinHexWidth

CeilDiv(a, b) == (a + b - 1) \div b

\* The chars of all blocks of a line, and of all lines, in output order.
RECURSIVE Concat(_)
Concat(seqs) == IF seqs = <<>> THEN <<>> ELSE Head(seqs) \o Concat(Tail(seqs))

BlockChars == Concat([l \in 1..Len(hex_string) |-> Concat(hex_string[l].blocks)])

\* The bytes a line renders: two chars each.
RenderedBytes(l) == Len(Concat(hex_string[l].blocks)) \div 2

DigitValue(c) == CHOOSE n \in 0..15 : HexDigits[n + 1] = c

\* The bytes that a string of hex digit pairs stands for.
ParseHex(cs) ==
    [i \in 1..(Len(cs) \div 2) |-> 16 * DigitValue(cs[2 * i - 1]) + DigitValue(cs[2 * i])]

\* C16: for every buffer length L and width W >= 15, hex_data_string emits
\* ceil(L / (4 * blocks_per_line)) lines with blocks_per_line = (W - 6) / 9, none for
\* an empty buffer; at W = 80 that is 8 blocks per line, and 40 bytes give 2 lines
\* whose rendered bytes sum to 40.
C16_LineCount ==
    HexDone =>
        LET L == Len(hex_data)
            per_line == (hex_width - 6) \div 9
        IN  /\ hex_blocks = per_line
            /\ Len(hex_string) = CeilDiv(L, 4 * per_line)
            /\ L = 0 => hex_string = <<>>
            /\ hex_width = 80 => hex_blocks = 8
            /\ (hex_width = 80 /\ L = 40) =>
                  /\ Len(hex_string) = 2
                  /\ RenderedBytes(1) + RenderedBytes(2) = 40
                  /\ RenderedBytes(1) = 32

\* C16 witness: 40 bytes at width 80 came out as the lines 000 and 001.
C16_Witness ==
    /\ HexDone
    /\ hex_width = 80
    /\ Len(hex_data) = 40
    /\ Len(hex_string) = 2
    /\ hex_string[2].label = <<"0", "0", "1">>

\* C17: for every buffer and width W >= 15, the byte pairs of all emitted blocks, in
\* output order, are the bytes of the buffer, each once and in order; a block holds
\* 4 bytes, or what remains of the buffer from its offset on.
C17_Coverage ==
    HexDone =>
        /\ ParseHex(BlockChars) = hex_data
        /\ \A l \in 1..Len(hex_string) : \A k \in 1..Len(hex_string[l].blocks) :
              LET at == 4 * ((l - 1) * hex_blocks + (k - 1))
                  left == Len(hex_data) - at
              IN  Len(hex_string[l].blocks[k]) =
                      2 * (IF left >= 4 THEN 4 ELSE IF left > 0 THEN left ELSE 0)

\* C17 witness: 38 bytes at width 80: the second line holds a full block, a block of
\* two bytes and empty blocks.
C17_Witness ==
    /\ HexDone
    /\ hex_width = 80
    /\ Len(hex_data) = 38
    /\ Len(hex_string) = 2
    /\ Len(hex_string[2].blocks[1]) = 8
    /\ Len(hex_string[2].blocks[2]) = 4
    /\ hex_string[2].blocks[3] = <<>>
    /\ ParseHex(BlockChars) = hex_data

\* C18 as stated: for every width below 6 the blocks-per-line computation is
\* clamped to zero blocks per line: it neither panics nor wraps as u16.
C18_NarrowWidthClamped ==
    (hex_width < 6 /\ hex_pc # "start") => (hex_pc # "panic" /\ hex_blocks = 0)

\* C26 as stated: for every buffer and every width of at least 6, hex_data_string
\* returns: its byte offset reaches the length of the buffer after finitely many
\* lines, the widths 6 to 14 with a non-empty buffer included.
C26_HexTerminates == (hex_pc = "start" /\ hex_width >= 6) ~> (hex_pc = "done")

(***************************************************************************)
(* Properties of the viewers, checked under SpecView.                      *)
(***************************************************************************)
Order == FOCUS_CYCLE_ORDER(fmt)

InOrder(focus) == \E i \in 1..Len(Order) : Order[i] = focus

\* The 0-based position of a member of the cycle order.
Pos(focus) == CHOOSE p \in 0..(Len(Order) - 1) : Order[p + 1] = focus

Repeat(d, n) == [i \in 1..n |-> d]

\* The last command, with the state it found, when it called move_focus.
LastMove == vlast # <<>> /\ dir_of(vlast[Len(vlast)].command) # 0

LastCmd == vlast[Len(vlast)]

\* C4 as stated: N consecutive move_focus(+1) calls, N the cycle length, leave
\* focus_on equal to its starting value, for any starting value.
C4_ClosureFromAnyFocus ==
    streak = Repeat(1, Len(Order)) => focus_on = streak_start

\* C4 amended: for each viewer and any starting focus value of the cycle order (any
\* value but the sentinel Focus::None), N consecutive move_focus(+1) calls, N the
\* cycle length, leave focus_on equal to its starting value.
C4_ClosureFromCycle ==
    (streak = Repeat(1, Len(Order)) /\ streak_start # "None") => focus_on = streak_start

\* C4 witness: four Tabs in a row in the GB viewer, started on Banks, ended on Banks.
C4_Witness ==
    /\ fmt = "GB"
    /\ streak = <<1, 1, 1, 1>>
    /\ streak_start = "Banks"
    /\ focus_on = "Banks"

\* C5 as stated: move_focus(+1) then move_focus(-1), and move_focus(-1) then
\* move_focus(+1), leave focus_on unchanged, for any starting value.
C5_InversesFromAnyFocus ==
    streak \in {<<1, -1>>, <<-1, 1>>} => focus_on = streak_start

\* C5 amended: for any starting focus value of the cycle order (any value but the
\* sentinel Focus::None), move_focus(+1) then move_focus(-1), and move_focus(-1)
\* then move_focus(+1), leave focus_on unchanged.
C5_InversesFromCycle ==
    (streak \in {<<1, -1>>, <<-1, 1>>} /\ streak_start # "None") =>
        focus_on = streak_start

\* C5 witness: Shift-Tab then Tab from the first element of the GB cycle, across the
\* wrap, ended on the first element.
C5_Witness ==
    /\ fmt = "GB"
    /\ streak = <<-1, 1>>
    /\ streak_start = "Restarts"
    /\ focus_on = "Restarts"

\* C6: from the element at position p of the cycle order, move_focus(d) sets
\* focus_on to the element at position (len + p + d) mod len; in the GB viewer Tab
\* from Header gives Banks, Tab from Banks gives Restarts and Shift-Tab from
\* Restarts gives Banks.
C6_CircularTraversal ==
    (LastMove /\ InOrder(LastCmd.focus_on)) =>
        LET d == dir_of(LastCmd.command)
            len == Len(Order)
        IN  /\ focus_on = Order[((len + Pos(LastCmd.focus_on) + d) % len) + 1]
            /\ (fmt = "GB" /\ d = 1 /\ LastCmd.focus_on = "Header") => focus_on = "Banks"
            /\ (fmt = "GB" /\ d = 1 /\ LastCmd.focus_on = "Banks") => focus_on = "Restarts"
            /\ (fmt = "GB" /\ d = -1 /\ LastCmd.focus_on = "Restarts") => focus_on = "Banks"

\* C6 witness: Shift-Tab on Restarts in the GB viewer wrapped to Banks.
C6_Witness ==
    /\ fmt = "GB"
    /\ LastMove
    /\ dir_of(LastCmd.command) = -1
    /\ LastCmd.focus_on = "Restarts"
    /\ focus_on = "Banks"

\* C7: from the sentinel Focus::None, move_focus(+1) yields the second element of
\* the cycle order and move_focus(-1) the last; after any move_focus call focus_on
\* is a member of the cycle order and the index read is inside the array.
C7_SentinelFallback ==
    LastMove =>
        /\ InOrder(focus_on)
        /\ focus_on # "None"
        /\ 0 <= LastCmd.ix /\ LastCmd.ix < Len(Order)
        /\ LastCmd.focus_on = "None" =>
              focus_on = IF dir_of(LastCmd.command) = 1 THEN Order[2] ELSE Order[Len(Order)]

\* C7 witness: Tab on the sentinel in the GB viewer gave Interrupts, the second
\* element.
C7_Witness ==
    /\ fmt = "GB"
    /\ LastMove
    /\ LastCmd.focus_on = "None"
    /\ dir_of(LastCmd.command) = 1
    /\ focus_on = "Interrupts"

\* C8: Unfocus stores focus_on into previous_focus and sets focus_on to
\* Focus::None; Focus sets focus_on to previous_focus; Unfocus followed at once by
\* Focus restores focus_on; neither changes the list selection.
C8_UnfocusRefocus ==
    /\ (vlast # <<>> /\ LastCmd.command.type = "Unfocus") =>
          /\ previous_focus = LastCmd.focus_on
          /\ focus_on = "None"
          /\ selected = LastCmd.selected
    /\ (vlast # <<>> /\ LastCmd.command.type = "Focus") =>
          /\ focus_on = LastCmd.previous_focus
          /\ selected = LastCmd.selected
    /\ (Len(vlast) = 2 /\ vlast[1].command.type = "Unfocus"
                       /\ vlast[2].command.type = "Focus") =>
          /\ focus_on = vlast[1].focus_on
          /\ selected = vlast[1].selected

\* C8 witness: Unfocus then Focus on Banks with the second item selected: focus is
\* back on Banks and the selection is the same.
C8_Witness ==
    /\ Len(vlast) = 2
    /\ vlast[1].command.type = "Unfocus"
    /\ vlast[2].command.type = "Focus"
    /\ vlast[1].focus_on = "Banks"
    /\ vlast[1].selected = <<1>>
    /\ focus_on = "Banks"
    /\ selected = <<1>>


\* The list-owning panel of each viewer.
ListPanel == IF fmt = "GB" THEN "Banks" ELSE "LoadCommands"

IsKey(c, key) == c.command.type = "Key" /\ c.command.key = key

Min(a, b) == IF a < b THEN a ELSE b

\* The last two steps were the key `key`, pressed with the list panel in focus, and
\* a render that drew the list.
KeyThenDrawn(key) ==
    /\ Len(vlast) = 2
    /\ IsKey(vlast[1], key)
    /\ vlast[1].focus_on = ListPanel
    /\ vlast[2].command = [type |-> "Render", key |-> "drawn"]

C20_SelectionGatedOnFocus ==
    vlast # <<>> =>
        /\ ((IsKey(LastCmd, "Up") \/ IsKey(LastCmd, "Down"))
              /\ LastCmd.focus_on # ListPanel) =>
                /\ selected = LastCmd.selected
                /\ focus_on = LastCmd.focus_on
                /\ previous_focus = LastCmd.previous_focus
        /\ ((IsKey(LastCmd, "Up") \/ IsKey(LastCmd, "Down"))
              /\ LastCmd.focus_on = ListPanel /\ LastCmd.selected \notin {<<>>, <<0>>}) =>
                selected # LastCmd.selected
        /\ (IsKey(LastCmd, "Tab") \/ IsKey(LastCmd, "BackTab")) =>
                selected = LastCmd.selected

\* C20 witness: Down pressed while unfocused (the sentinel) found and left the
\* second item selected.
C20_Witness ==
    /\ vlast # <<>>
    /\ IsKey(LastCmd, "Down")
    /\ LastCmd.focus_on = "None"
    /\ LastCmd.selected = <<1>>
    /\ selected = <<1>>
    /\ focus_on = "None"

\* C21 as stated: in every reachable viewer state the selection is none or an index
\* below the length of the list, and no redraw reads bank_data or load_commands out
\* of bounds.
C21_SelectionInBounds ==
    /\ view_state # "panic"
    /\ IF selected = <<>> THEN TRUE ELSE selected[1] >= 0 /\ selected[1] < nitems

\* C27 as stated: after an InteractiveCommand::Focus, whatever Key, Focus and Unfocus
\* commands came before it since construction, focus_on is a member of the cycle
\* order and not Focus::None.
C27_RefocusNeverSentinel ==
    (vlast # <<>> /\ LastCmd.command.type = "Focus") =>
        (InOrder(focus_on) /\ focus_on # "None")

(***************************************************************************)
(* Properties of the disassembly cache, checked under SpecDis.             *)
(***************************************************************************)
\* C23: whichever of the 14 ranges the disassembler fails on, the viewer is built
\* and the text kept for such a range is one line, the error description behind
\* "Err disassemble: "; the text of every range is what construction computed, and
\* no key and no redraw changes it.
C23_DisassemblyLocal ==
    /\ Cardinality(DisRanges) = 14
    /\ DOMAIN disassembles = DisRanges
    /\ \A r \in DisRanges :
          IF dis_results[r].ok
          THEN disassembles[r] = dis_results[r].lines
          ELSE /\ Len(disassembles[r]) = 1
               /\ disassembles[r][1] = <<"Err disassemble: ", dis_results[r].err>>

\* C23 witness: rst_3 did not disassemble; keys have since moved the focus to Banks
\* and the selection down, and rst_3 still shows its one error line, the entry point
\* its instructions.
C23_Witness ==
    /\ ~dis_results["rst_3"].ok
    /\ dis_results["entry_point"].ok
    /\ focus_on = "Banks"
    /\ selected = <<1>>
    /\ disassembles["rst_3"] = << <<"Err disassemble: ", "unknown opcode">> >>
    /\ disassembles["entry_point"] = DisLines

(***************************************************************************)
(* Properties of the opener, checked under SpecFile.                       *)
(***************************************************************************)
\* The file starts with the bytes CF FA ED FE.
HasMagic ==
    /\ Len(open_call.bytes) >= 4
    /\ SubSeq(open_call.bytes, 1, 4) = <<207, 250, 237, 254>>

\* Every I/O call on the file succeeds and the parser accepts it.
Loads == open_call.io = "none" /\ open_call.parses

GbExtension == open_call.extension \in {<<"gb">>, <<"gbc">>}

\* C24: open_binary_file returns the Mach-O variant whenever the first four bytes,
\* read as a little-endian u32, are the Mach-O magic, whatever the extension;
\* otherwise the GB variant exactly when the extension is gb or gbc; otherwise the
\* error "file not supported"; an unreadable file or a parser failure gives an error,
\* never a binary.
C24_DetectionOrder ==
    open_ret # <<>> =>
        LET ret == open_ret[1]
        IN  /\ (HasMagic /\ Loads) => ret.kind = "Macho"
            /\ (~HasMagic /\ Loads) => (ret.kind = "GB" <=> GbExtension)
            /\ (~HasMagic /\ ~GbExtension) =>
                  (open_call.io \in {"none", "read_all"} =>
                      ret = [kind |-> "Err", err |-> "file not supported"])
            /\ ~Loads => ret.kind = "Err"
            /\ ret.kind = "Macho" => HasMagic
            /\ ret.kind = "GB" => ~HasMagic /\ GbExtension

\* C24 witness: a readable file named *.gb that starts with the Mach-O magic was
\* opened as Mach-O.
C24_Witness ==
    /\ open_ret # <<>>
    /\ HasMagic
    /\ open_call.extension = <<"gb">>
    /\ Loads
    /\ open_ret[1].kind = "Macho"

====
